---- MODULE Spec2Model ----
\* Model of src/executor.mjs: a single-process swap executor.  The state is the
\* process environment, the two module-level counters (tradesToday, lastDay),
\* the position of the one async control flow (pc), the wall clock read by
\* new Date(), and observation variables that record the external requests of
\* the current loop iteration.
EXTENDS Integers, Sequences, FiniteSets, TLC

VARIABLES
  env,          \* process.env as read at line 12-23 (fixed for one process run)
  pc,           \* position of main() and loop(), the awaiting control flow
  swaps,        \* positions of the swapOnce() calls that have not settled yet
  tradesToday,  \* line 94
  lastDay,      \* line 95: a day of the month, 1..31
  clock,        \* wall clock in whole UTC days since 1970-01-01
  calls,        \* requests of the current iteration (of the startup before the first)
  sentToday,    \* sendTransaction calls of this run on the calendar day `clock`
  lastResetDay, \* calendar day on which tradesToday was last set to 0 (or the run began)
  run,          \* number of restarts of the process so far
  prevRunTraded, \* a previous run submitted a transaction on the calendar day `clock`
  confirmed,    \* swaps confirmed (line 89 resolved) since tradesToday was last set to 0
  limitDay,     \* calendar day on which tradesToday reached the cap, NoDay before
  startup,      \* how far main() got: "none", "balance" (line 125), "online" (line 127)
  lastQuote     \* <<inputMint, outputMint, amount>> of the last quote request, <<>> before

vars == <<env, pc, swaps, tradesToday, lastDay, clock, calls, sentToday, lastResetDay,
          run, prevRunTraded, confirmed, limitDay, startup, lastQuote>>

-----------------------------------------------------------------------------
\* Bounds of the model.

\* Last calendar day (days since 1970-01-01) the clock may show.
MaxDay == 32
\* Only days whose day of the month is at most MaxDate are observed.
MaxDate == 2
\* Confirmed swaps counted in tradesToday are capped by this in the guard.
MaxTrades == 3
\* sentToday saturates at this value.
MaxSent == 3
\* Number of process restarts.
MaxRuns == 1

-----------------------------------------------------------------------------
\* Program constants.

\* DAILY_BUDGET_TRADES ?? 100
DefaultBudget == 100
\* INTERVAL_SECONDS ?? 1200
DefaultInterval == 1200

\* No calendar day: the value of limitDay while the cap has not been reached.
NoDay == -1

\* process.env value of a variable that is not set (undefined).
Unset == "<unset>"
\* Number(x) of a string that is no number, and Number(undefined).
NaN == -1

\* Number(s) for the strings the model puts into the environment.
NumberOf(s) ==
  CASE s = "0" -> 0
    [] s = "1" -> 1
    [] s = "2" -> 2
    [] s = "60" -> 60
    [] s = "1000" -> 1000
    [] OTHER -> NaN

\* Days of the months of 1970, the year the clock's window lies in.
MonthDays == <<31, 28, 31, 30, 31, 30, 31, 31, 30, 31, 30, 31>>

RECURSIVE DateIn(_, _)
DateIn(d, m) == IF d < MonthDays[m] THEN d + 1 ELSE DateIn(d - MonthDays[m], m + 1)

\* new Date(clock).getUTCDate(): the day of the month, 1..31.
getUTCDate(d) == DateIn(d, 1)

\* The calendar days the clock can show.
Days == {d \in 0..MaxDay : getUTCDate(d) <= MaxDate}

\* The clock readings possible after an await that began at day c.
Later(c) == {d \in Days : d >= c}

\* The variables line 25 requires.
Required == {"RPC_URL", "PRIVATE_KEY_B58", "TOKEN_MINT", "QUOTE_MINT", "SIDE"}

\* Line 25: every required variable is set.
Complete(e) == \A v \in Required : e[v] # Unset

AllEnvs ==
  [ RPC_URL : {Unset, "https://rpc"},
    PRIVATE_KEY_B58 : {Unset, "key"},
    TOKEN_MINT : {Unset, "TokenMint"},
    QUOTE_MINT : {Unset, "QuoteMint"},
    SIDE : {Unset, "sell", "buy"},
    AMOUNT_IN_BASE_UNITS : {Unset, "1000", "0", "abc"},
    DAILY_BUDGET_TRADES : {Unset, "0", "1", "2", "1.5"},
    INTERVAL_SECONDS : {Unset, "60"},
    DISCORD_WEBHOOK_URL : {Unset, "https://hook"} ]

\* The environments the model starts the process in: every complete one, and
\* the incomplete ones with the optional variables unset.
Envs ==
  {e \in AllEnvs :
     \/ Complete(e)
     \/ /\ e.AMOUNT_IN_BASE_UNITS = Unset
        /\ e.DAILY_BUDGET_TRADES = Unset
        /\ e.INTERVAL_SECONDS = Unset
        /\ e.DISCORD_WEBHOOK_URL = Unset}

Call(op, ok, ms) == [op |-> op, ok |-> ok, ms |-> ms]

\* The steps of swapOnce, in the order of its code.
Chain == <<"quote", "build", "sign", "send", "confirm">>

ChainOps == {Chain[i] : i \in DOMAIN Chain}

\* How often the current iteration issued request op.
CountOf(op) == Cardinality({i \in DOMAIN calls : calls[i].op = op})

Has(op) == CountOf(op) > 0

\* A step of swapOnce threw in the current iteration.
Threw == \E i \in DOMAIN calls : calls[i].op \in ChainOps \cup {"validate"} /\ ~calls[i].ok

\* Twice Number(s): the numbers compared with the trade counter are kept in
\* halves, so that a cap such as 1.5 has a value.
HalvesOf(s) ==
  IF s = "1.5" THEN 3
  ELSE IF NumberOf(s) = NaN THEN NaN ELSE 2 * NumberOf(s)

\* Number(DAILY_BUDGET_TRADES ?? 100), in halves.
CapHalves == IF env.DAILY_BUDGET_TRADES = Unset THEN 2 * DefaultBudget
             ELSE HalvesOf(env.DAILY_BUDGET_TRADES)

\* Variant: the interval is doubled after a failed iteration (a backoff).
IntervalMsBackoff ==
  LET base == IF env.INTERVAL_SECONDS = Unset THEN DefaultInterval * 1000
              ELSE NumberOf(env.INTERVAL_SECONDS) * 1000
  IN IF Threw THEN 2 * base ELSE base

\* Number(INTERVAL_SECONDS ?? 1200) * 1000
IntervalMs == IF env.INTERVAL_SECONDS = Unset THEN DefaultInterval * 1000
              ELSE NumberOf(env.INTERVAL_SECONDS) * 1000

\* Number(AMOUNT_IN_BASE_UNITS)
Amount == IF env.AMOUNT_IN_BASE_UNITS = Unset THEN NaN
          ELSE NumberOf(env.AMOUNT_IN_BASE_UNITS)

\* a >= b of JavaScript numbers: false when b is NaN.
GE(a, b) == b # NaN /\ a >= b

Min(a, b) == IF a < b THEN a ELSE b

\* Number.isFinite(x) for the numbers of the model.
IsFinite(x) == x # NaN

\* A per-day observation after an await that ended on day d: kept on the same
\* calendar day, started afresh on a later one.
OnDay(x, zero, d) == IF d = clock THEN x ELSE zero

\* The clock moves to d; the per-day observations follow it.
Tick(d) ==
  /\ clock' = d
  /\ prevRunTraded' = OnDay(prevRunTraded, FALSE, d)

-----------------------------------------------------------------------------
\* Module evaluation (lines 12-35 and 94-95) of a process started on day d.

\* Variant: line 25 without its test of SIDE.
BootPcNoSide(e) ==
  IF \E v \in Required \ {"SIDE"} : e[v] = Unset THEN "exit1" ELSE "main"

\* Lines 25-28: process.exit(1) when a required variable is missing.
BootPc(e) == IF ~Complete(e) THEN "exit1" ELSE "main"

\* Variant: the counter of the previous run is restored at startup.
BootPersisted(e, d) ==
  /\ pc' = BootPc(e)
  /\ tradesToday' = tradesToday
  /\ lastDay' = getUTCDate(d)
  /\ lastResetDay' = d
  /\ calls' = <<>>
  /\ swaps' = <<>>
  /\ sentToday' = 0
  /\ confirmed' = 0
  /\ limitDay' = NoDay
  /\ startup' = "none"
  /\ lastQuote' = <<>>

Boot(e, d) ==
  /\ pc' = BootPc(e)
  /\ tradesToday' = 0
  /\ lastDay' = getUTCDate(d)
  /\ lastResetDay' = d
  /\ calls' = <<>>
  /\ swaps' = <<>>
  /\ sentToday' = 0
  /\ confirmed' = 0
  /\ limitDay' = NoDay
  /\ startup' = "none"
  /\ lastQuote' = <<>>

Init ==
  /\ env \in Envs
  /\ clock \in Days
  /\ pc = BootPc(env)
  /\ tradesToday = 0
  /\ lastDay = getUTCDate(clock)
  /\ lastResetDay = clock
  /\ calls = <<>>
  /\ swaps = <<>>
  /\ sentToday = 0
  /\ run = 0
  /\ prevRunTraded = FALSE
  /\ confirmed = 0
  /\ limitDay = NoDay
  /\ startup = "none"
  /\ lastQuote = <<>>

-----------------------------------------------------------------------------
\* discord(msg), lines 39-48.

\* Variant: discord() without its try/catch, a failed fetch rejects.
discordThrowsUncaught(ok) == ~ok

\* Whether discord() rejects when its fetch failed: the try/catch swallows it.
discordThrows(ok) == FALSE

\* Variant: the guard of line 40 inverted, nothing is ever posted.
discordNoPost(msg, ok, d) ==
  /\ ok
  /\ d = clock
  /\ calls' = calls

\* The webhook post of discord(msg): none when DISCORD_WEBHOOK_URL is unset,
\* otherwise one fetch whose outcome is ok and which returns on day d.
discord(msg, ok, d) ==
  IF env.DISCORD_WEBHOOK_URL = Unset
  THEN /\ ok
       /\ d = clock
       /\ calls' = calls
  ELSE calls' = Append(calls, Call(msg, ok, 0))

-----------------------------------------------------------------------------
\* The startup, lines 124-129.

GetBalance ==
  /\ pc = "main"
  /\ \E ok \in BOOLEAN, d \in Later(clock) :
       /\ calls' = Append(calls, Call("getBalance", ok, 0))
       /\ pc' = IF ok THEN "online" ELSE "crashed"
       /\ startup' = IF ok THEN "balance" ELSE startup
       /\ Tick(d)
       /\ sentToday' = OnDay(sentToday, 0, d)
  /\ UNCHANGED <<confirmed, limitDay, lastQuote, env, swaps, tradesToday, lastDay, lastResetDay, run>>

NotifyOnline ==
  /\ pc = "online"
  /\ \E ok \in BOOLEAN, d \in Later(clock) :
       /\ discord("postOnline", ok, d)
       /\ pc' = IF discordThrows(ok) THEN "crashed" ELSE "top"
       /\ startup' = "online"
       /\ Tick(d)
       /\ sentToday' = OnDay(sentToday, 0, d)
  /\ UNCHANGED <<confirmed, limitDay, lastQuote, env, swaps, tradesToday, lastDay, lastResetDay, run>>

-----------------------------------------------------------------------------
\* loop(), lines 97-122.

\* Variant: no try/catch around the iteration, a throwing step ends the process.
AfterStepNoCatch(cur, ok, succ) == IF ok THEN succ ELSE "crashed"

\* Variant: a failed step is tried again at once, inside the iteration.
AfterStepRetry(cur, ok, succ) == IF ok THEN succ ELSE cur

\* Variant: a failed step does not throw, the iteration goes on.
AfterStepIgnoreError(cur, ok, succ) == succ

\* Where control goes after the step at position cur inside the try block: on
\* to succ, or to the catch clause when the step threw.
AfterStep(cur, ok, succ) == IF ok THEN succ ELSE "catch"

\* The positions inside swapOnce().
SwapPcs == {"swapOnce", "quote", "build", "sign", "send", "confirm"}

\* Variant: swapOnce() is called without await, the loop goes on at once.
CallSwapOnceNoAwait == "executed"

\* Line 107: the loop calls swapOnce() and is suspended until it settles.
CallSwapOnce == "awaitSwap"

\* Variant: line 104 with > for >=.
BranchOffByOne(t) == IF 2 * t # CapHalves /\ GE(2 * t, CapHalves) THEN "limit" ELSE CallSwapOnce

\* The branch of line 104 for a counter value t.
Branch(t) == IF GE(2 * t, CapHalves) THEN "limit" ELSE CallSwapOnce

\* Lines 100-104 and the call of line 107: the day check and the cap check.
IterStart ==
  /\ pc = "top"
  /\ LET day == getUTCDate(clock)
         t == IF day # lastDay THEN 0 ELSE tradesToday
     IN /\ lastDay' = day
        /\ tradesToday' = t
        /\ lastResetDay' = IF day # lastDay THEN clock ELSE lastResetDay
        /\ confirmed' = IF day # lastDay THEN 0 ELSE confirmed
        /\ limitDay' = IF day # lastDay THEN NoDay ELSE limitDay
        /\ pc' = Branch(t)
        /\ swaps' = IF Branch(t) = "limit" THEN swaps ELSE Append(swaps, "swapOnce")
  /\ calls' = <<>>
  /\ UNCHANGED <<startup, lastQuote, env, clock, sentToday, run, prevRunTraded>>

\* Variant: line 106 without its else, the swap follows the limit notice.
NotifyLimitThenSwap ==
  /\ pc = "limit"
  /\ \E ok \in BOOLEAN, d \in Later(clock) :
       /\ discord("postLimit", ok, d)
       /\ pc' = CallSwapOnce
       /\ Tick(d)
       /\ sentToday' = OnDay(sentToday, 0, d)
  /\ swaps' = Append(swaps, "swapOnce")
  /\ UNCHANGED <<confirmed, limitDay, startup, lastQuote, env, tradesToday, lastDay, lastResetDay, run>>

\* Line 105.
NotifyLimit ==
  /\ pc = "limit"
  /\ \E ok \in BOOLEAN, d \in Later(clock) :
       /\ discord("postLimit", ok, d)
       /\ pc' = AfterStep(pc, ~discordThrows(ok), "sleep")
       /\ Tick(d)
       /\ sentToday' = OnDay(sentToday, 0, d)
  /\ UNCHANGED <<confirmed, limitDay, startup, lastQuote, env, swaps, tradesToday, lastDay, lastResetDay, run>>

\* Line 108: swapOnce returned, the trade is counted.
Count ==
  /\ pc = "executed"
  /\ tradesToday' = tradesToday + 1
  /\ limitDay' = IF limitDay = NoDay /\ GE(2 * (tradesToday + 1), CapHalves)
                 THEN clock ELSE limitDay
  /\ pc' = "notifyOk"
  /\ UNCHANGED <<confirmed, startup, lastQuote, env, swaps, lastDay, clock, calls, sentToday, lastResetDay, run,
                 prevRunTraded>>

\* Lines 109-114.
NotifyOk ==
  /\ pc = "notifyOk"
  /\ \E ok \in BOOLEAN, d \in Later(clock) :
       /\ discord("postOk", ok, d)
       /\ pc' = AfterStep(pc, ~discordThrows(ok), "sleep")
       /\ Tick(d)
       /\ sentToday' = OnDay(sentToday, 0, d)
  /\ UNCHANGED <<confirmed, limitDay, startup, lastQuote, env, swaps, tradesToday, lastDay, lastResetDay, run>>

\* Variant: the trade is counted before swapOnce is awaited, so also when it throws.
CatchCounts ==
  /\ pc = "catch"
  /\ \E ok \in BOOLEAN, d \in Later(clock) :
       /\ discord("postError", ok, d)
       /\ pc' = IF discordThrows(ok) THEN "crashed" ELSE "sleep"
       /\ Tick(d)
       /\ sentToday' = OnDay(sentToday, 0, d)
  /\ tradesToday' = tradesToday + 1
  /\ UNCHANGED <<confirmed, limitDay, startup, lastQuote, env, swaps, lastDay, lastResetDay, run>>

\* Lines 116-119: an error thrown out of the catch clause is an unhandled
\* rejection of main's promise, which ends the process.
Catch ==
  /\ pc = "catch"
  /\ \E ok \in BOOLEAN, d \in Later(clock) :
       /\ discord("postError", ok, d)
       /\ pc' = IF discordThrows(ok) THEN "crashed" ELSE "sleep"
       /\ Tick(d)
       /\ sentToday' = OnDay(sentToday, 0, d)
  /\ UNCHANGED <<confirmed, limitDay, startup, lastQuote, env, swaps, tradesToday, lastDay, lastResetDay, run>>

\* Line 120.
Sleep ==
  /\ pc = "sleep"
  /\ \E d \in Later(clock) :
       /\ calls' = Append(calls, Call("sleep", TRUE, IntervalMs))
       /\ Tick(d)
       /\ sentToday' = OnDay(sentToday, 0, d)
  /\ pc' = "top"
  /\ UNCHANGED <<confirmed, limitDay, startup, lastQuote, env, swaps, tradesToday, lastDay, lastResetDay, run>>

-----------------------------------------------------------------------------
\* swapOnce(), lines 50-92.  Each action is the step of one call of swapOnce
\* that has not settled, the i-th of swaps.

Remove(s, i) == SubSeq(s, 1, i - 1) \o SubSeq(s, i + 1, Len(s))

\* The i-th call goes on to target.  A target outside swapOnce settles the
\* call: it returned ("executed") or threw, and the loop, when it awaits the
\* call, resumes there.
StepTo(i, target) ==
  IF target \in SwapPcs
  THEN /\ swaps' = [swaps EXCEPT ![i] = target]
       /\ pc' = pc
  ELSE /\ swaps' = Remove(swaps, i)
       /\ pc' = IF pc = "awaitSwap" THEN target ELSE pc

\* Variant: the two sides of line 34 exchanged.
INPUTSwapped == IF env.SIDE = "sell" THEN env.QUOTE_MINT ELSE env.TOKEN_MINT

\* Line 34 (PublicKey and toBase58 give back the mint's own base58 string).
INPUT == IF env.SIDE = "sell" THEN env.TOKEN_MINT ELSE env.QUOTE_MINT

\* Line 35.
OUTPUT == IF env.SIDE = "sell" THEN env.QUOTE_MINT ELSE env.TOKEN_MINT

\* Variant: line 52 with amount < 0 for amount <= 0.
AmountOkZero(a) == IsFinite(a) /\ a >= 0

\* Line 52: the amount passes when it is a finite number greater than 0.
AmountOk(a) == IsFinite(a) /\ a > 0

\* Lines 51-54.
Validate ==
  /\ \E i \in DOMAIN swaps :
       /\ swaps[i] = "swapOnce"
       /\ LET ok == AmountOk(Amount)
          IN /\ calls' = Append(calls, Call("validate", ok, 0))
             /\ StepTo(i, AfterStep("swapOnce", ok, "quote"))
  /\ UNCHANGED <<confirmed, limitDay, startup, lastQuote, env, tradesToday, lastDay, clock, sentToday, lastResetDay, run,
                 prevRunTraded>>

\* Variant: the checks of lines 65 and 68 are missing.
QuoteChecksNone(net, status, route) == net

\* Lines 64-68: the quote is used when the fetch resolved (net), the response
\* status is ok (line 65) and the body holds a first route (line 68).
QuoteChecks(net, status, route) == net /\ status /\ route

\* Lines 57-68: the quote request, its status and its first route.
Quote ==
  /\ \E i \in DOMAIN swaps, net \in BOOLEAN, status \in BOOLEAN, route \in BOOLEAN,
        d \in Later(clock) :
       /\ swaps[i] = "quote"
       /\ calls' = Append(calls, Call("quote", net /\ status /\ route, 0))
       /\ lastQuote' = <<INPUT, OUTPUT, Amount>>
       /\ StepTo(i, AfterStep("quote", QuoteChecks(net, status, route), "build"))
       /\ Tick(d)
       /\ sentToday' = OnDay(sentToday, 0, d)
  /\ UNCHANGED <<confirmed, limitDay, startup, env, tradesToday, lastDay, lastResetDay, run>>

\* Lines 71-82: the built transaction is used when the fetch resolved and the
\* response status is ok (line 82).
BuildChecks(net, status) == net /\ status

\* Lines 71-83: the swap-build request and its body.
Build ==
  /\ \E i \in DOMAIN swaps, net \in BOOLEAN, status \in BOOLEAN, d \in Later(clock) :
       /\ swaps[i] = "build"
       /\ calls' = Append(calls, Call("build", net /\ status, 0))
       /\ StepTo(i, AfterStep("build", BuildChecks(net, status), "sign"))
       /\ Tick(d)
       /\ sentToday' = OnDay(sentToday, 0, d)
  /\ UNCHANGED <<confirmed, limitDay, startup, lastQuote, env, tradesToday, lastDay, lastResetDay, run>>

\* Lines 84-87: deserialize and sign, both synchronous.
Sign ==
  /\ \E i \in DOMAIN swaps, ok \in BOOLEAN :
       /\ swaps[i] = "sign"
       /\ calls' = Append(calls, Call("sign", ok, 0))
       /\ StepTo(i, AfterStep("sign", ok, "send"))
  /\ UNCHANGED <<confirmed, limitDay, startup, lastQuote, env, tradesToday, lastDay, clock, sentToday, lastResetDay, run,
                 prevRunTraded>>

\* Line 88: sendTransaction is invoked on day clock and returns on day d; when
\* it returns a signature the transaction has been submitted.
Send ==
  /\ \E i \in DOMAIN swaps, ok \in BOOLEAN, d \in Later(clock) :
       /\ swaps[i] = "send"
       /\ calls' = Append(calls, Call("send", ok, 0))
       /\ StepTo(i, AfterStep("send", ok, "confirm"))
       /\ Tick(d)
       /\ sentToday' = OnDay(IF ok THEN Min(sentToday + 1, MaxSent) ELSE sentToday, 0, d)
  /\ UNCHANGED <<confirmed, limitDay, startup, lastQuote, env, tradesToday, lastDay, lastResetDay, run>>

\* Lines 89-91: the confirmation, and the return to the loop.
Confirm ==
  /\ \E i \in DOMAIN swaps, ok \in BOOLEAN, d \in Later(clock) :
       /\ swaps[i] = "confirm"
       /\ ok => tradesToday < MaxTrades
       /\ calls' = Append(calls, Call("confirm", ok, 0))
       /\ StepTo(i, AfterStep("confirm", ok, "executed"))
       /\ confirmed' = IF ok THEN confirmed + 1 ELSE confirmed
       /\ Tick(d)
       /\ sentToday' = OnDay(sentToday, 0, d)
  /\ UNCHANGED <<limitDay, startup, lastQuote, env, tradesToday, lastDay, lastResetDay, run>>

-----------------------------------------------------------------------------
\* The process is killed (or has ended) and is started again on day d with the
\* same environment: the module is evaluated anew.
Restart ==
  /\ run < MaxRuns
  /\ run' = run + 1
  /\ \E d \in Later(clock) :
       /\ Boot(env, d)
       /\ clock' = d
       /\ prevRunTraded' = OnDay(prevRunTraded \/ sentToday > 0, FALSE, d)
  /\ UNCHANGED env

Next ==
  \/ GetBalance
  \/ NotifyOnline
  \/ IterStart
  \/ NotifyLimit
  \/ Validate
  \/ Quote
  \/ Build
  \/ Sign
  \/ Send
  \/ Confirm
  \/ Count
  \/ NotifyOk
  \/ Catch
  \/ Sleep
  \/ Restart

Spec == Init /\ [][Next]_vars

-----------------------------------------------------------------------------
\* Observations used by the properties below.

\* The positions of the control flow inside loop().
LoopPcs == {"top", "limit", "awaitSwap", "executed", "notifyOk", "catch", "sleep"}

\* The steps loop() can take.
LoopNext ==
  \/ IterStart \/ NotifyLimit \/ Validate \/ Quote \/ Build \/ Sign \/ Send
  \/ Confirm \/ Count \/ NotifyOk \/ Catch \/ Sleep

\* The requests of swapOnce in the current iteration, in the order issued.
ChainCalls == SelectSeq(calls, LAMBDA c : c.op \in ChainOps)

\* A step of the running process (not a restart).
SameRun == run' = run

-----------------------------------------------------------------------------
\* C1: within one UTC calendar day of one process run, the number of swap
\* transactions submitted to the chain (sendTransaction returned a signature)
\* never exceeds the cap Number(DAILY_BUDGET_TRADES ?? 100), here for the caps
\* that are whole numbers.
C1_DailyCapEnforced == CapHalves % 2 = 0 => 2 * sentToday <= CapHalves

\* C2: an iteration that starts on another UTC calendar day than the day of
\* the last reset (or of the process start) sets tradesToday to 0 and lastDay
\* to the current day, before its cap check.
C2_ResetOnDayChange ==
  [][(pc = "top" /\ pc' \in {"limit", "swapOnce"} /\ clock # lastResetDay)
       => (tradesToday' = 0 /\ lastDay' = getUTCDate(clock))]_vars

\* C3: the loop never terminates on error: a failing step of an iteration
\* leads to the catch clause, the catch clause to the sleep, the sleep to the
\* next iteration; the loop never leaves its positions and always has a step
\* to take.
C3_LoopNeverStops ==
  /\ [][(pc \in LoopPcs /\ SameRun) =>
          /\ pc' \in LoopPcs
          /\ (pc = "awaitSwap" /\ ~calls'[Len(calls')].ok) => pc' = "catch"
          /\ pc = "catch" => pc' = "sleep"
          /\ pc = "sleep" => pc' = "top"]_vars
  /\ [](pc \in LoopPcs => ENABLED LoopNext)

\* Witness of C3: an iteration failed, slept, and the next one is about to start.
C3_Witness == pc = "top" /\ Threw /\ Has("sleep")

\* C4 as stated: in every iteration in which a step throws, a 'Swap error'
\* post is issued to the webhook before the sleep.
C4_ErrorAlwaysPosted == (pc = "sleep" /\ Threw) => Has("postError")

\* C4 as amended: in every iteration in which a step throws, exactly one
\* 'Swap error' post is issued before the sleep when DISCORD_WEBHOOK_URL is
\* set, and none when it is unset.
C4_ErrorPostedIfWebhook ==
  (pc = "sleep" /\ Threw) =>
     /\ ~Has("sleep")
     /\ CountOf("postError") = (IF env.DISCORD_WEBHOOK_URL = Unset THEN 0 ELSE 1)

\* Witness of C4: a failed iteration has posted its error and is about to sleep.
C4_Witness == pc = "sleep" /\ Threw /\ Has("postError")

\* C5: within one iteration the requests of swapOnce are issued in the order
\* quote, build, sign, send, confirm, each only after the previous one
\* succeeded; no transaction is sent without a successful quote and build.
C5_ChainOrder ==
  LET s == ChainCalls
  IN /\ Len(s) <= Len(Chain)
     /\ \A i \in DOMAIN s :
          i <= Len(Chain) => /\ s[i].op = Chain[i]
                             /\ i > 1 => s[i - 1].ok
     /\ Has("send") =>
          \E i, j \in DOMAIN calls :
             /\ calls[i].op = "quote" /\ calls[i].ok
             /\ calls[j].op = "build" /\ calls[j].ok

\* Witness of C5: an iteration ran the whole chain.
C5_Witness == pc = "executed" /\ Has("confirm")

\* C6: every iteration, however it ended, is followed by exactly one sleep of
\* Number(INTERVAL_SECONDS ?? 1200) * 1000 ms before the next one starts; an
\* iteration makes one swap attempt at most, and the interval is the same
\* after a failure.
C6_OneFixedSleep ==
  /\ CountOf("sleep") <= 1
  /\ CountOf("validate") <= 1
  /\ \A i \in DOMAIN calls :
       calls[i].op = "sleep" =>
          /\ i = Len(calls)
          /\ calls[i].ms = IF env.INTERVAL_SECONDS = Unset THEN 1200 * 1000
                           ELSE NumberOf(env.INTERVAL_SECONDS) * 1000
  /\ pc = "top" => (Has("getBalance") \/ Has("sleep"))
  /\ Has("sleep") => pc = "top"

\* Witness of C6: a failed iteration has slept the default interval.
C6_Witness ==
  pc = "top" /\ Threw /\ Has("sleep") /\ env.INTERVAL_SECONDS = Unset

\* C7: an iteration issues each request of swapOnce once at most and nothing
\* of swapOnce after a failed step; the failed attempt is followed by the
\* catch clause and the sleep, and the next iteration attempts the swap again
\* whenever the cap is not reached, without any count of earlier failures.
C7_OneAttemptPerIteration ==
  /\ [](/\ \A op \in ChainOps \cup {"validate"} : CountOf(op) <= 1
        /\ \A i, j \in DOMAIN calls :
             (calls[i].op \in ChainOps \cup {"validate"} /\ ~calls[i].ok /\ j > i)
                => calls[j].op \notin ChainOps
        /\ Threw => pc \in {"catch", "sleep", "top"}
        /\ pc = "top" => ENABLED IterStart)
  /\ [][(pc = "top" /\ pc' \in {"limit", "swapOnce"} /\ ~GE(2 * tradesToday', CapHalves))
          => pc' = "swapOnce"]_vars

\* Witness of C7: an iteration whose one quote request failed has slept.
C7_Witness ==
  /\ pc = "top"
  /\ Has("sleep")
  /\ \E i \in DOMAIN calls : calls[i].op = "quote" /\ ~calls[i].ok

\* C8: a notification, failed or absent, never raises an error into the loop
\* (control goes on to the sleep, at startup to the loop), never changes
\* tradesToday or lastDay, and a 'Swap error' is posted only when a step of
\* swapOnce threw.
C8_NotificationBestEffort ==
  /\ [][(pc \in {"limit", "notifyOk", "catch"} /\ SameRun) =>
          (pc' = "sleep" /\ tradesToday' = tradesToday /\ lastDay' = lastDay)]_vars
  /\ [][(pc = "online" /\ SameRun) =>
          (pc' = "top" /\ tradesToday' = tradesToday /\ lastDay' = lastDay)]_vars
  /\ []((Has("postError") \/ pc = "catch") => Threw)

\* Witness of C8: the success post of a confirmed swap failed, and the
\* iteration is about to sleep.
C8_Witness ==
  /\ pc = "sleep"
  /\ Has("confirm")
  /\ \E i \in DOMAIN calls : calls[i].op = "postOk" /\ ~calls[i].ok

\* C9: the loop is strictly sequential: at most one call of swapOnce is in
\* progress at any time, and exactly while the loop awaits it; the steps of
\* swapOnce leave tradesToday and lastDay alone, which only the loop's own
\* steps (the day check, the count) and the start of the process write.
C9_Sequential ==
  /\ [](/\ Len(swaps) <= 1
        /\ Len(swaps) = 1 <=> pc = "awaitSwap")
  /\ [][(tradesToday' # tradesToday \/ lastDay' # lastDay)
          => (pc \in {"top", "executed"} \/ ~SameRun)]_vars

\* Witness of C9: a second iteration has its call of swapOnce in progress
\* (the transaction is being sent) after an earlier one was counted.
C9_Witness == pc = "awaitSwap" /\ swaps = <<"send">> /\ tradesToday > 0

\* C10: after a restart of the process tradesToday is 0 and lastDay is the
\* UTC day of the restart, whatever the previous run traded on that day.
C10_RestartResetsState ==
  (pc = "main" /\ run > 0) => (tradesToday = 0 /\ lastDay = getUTCDate(clock))

\* Witness of C10: the process was restarted on a day on which its previous
\* run had submitted a transaction.
C10_Witness == pc = "main" /\ run > 0 /\ prevRunTraded

\* The confirmation of the current iteration resolved.
ConfirmedNow == \E i \in DOMAIN calls : calls[i].op = "confirm" /\ calls[i].ok

\* The value of tradesToday at the cap check of the iteration calls belongs to.
TradesAtBranch ==
  tradesToday - (IF pc \in {"notifyOk", "sleep", "top"} /\ ConfirmedNow THEN 1 ELSE 0)

\* The iteration calls belongs to found the cap reached at line 104.
LimitIteration ==
  /\ pc \in LoopPcs
  /\ ~Has("getBalance")
  /\ GE(2 * TradesAtBranch, CapHalves)

\* C11: tradesToday goes up by exactly 1, and only when swapOnce returned
\* after its confirmation; a failed iteration (also one whose confirmation
\* failed after the submission) and a cap-reached iteration leave it alone;
\* tradesToday equals the number of confirmed swaps since the last reset (one
\* less while the return of swapOnce is being delivered to line 108).
C11_CountsConfirmedSwaps ==
  /\ [](tradesToday + (IF pc = "executed" THEN 1 ELSE 0) = confirmed)
  /\ [](pc = "executed" => (calls # <<>> /\ calls[Len(calls)] = Call("confirm", TRUE, 0)))
  /\ [][(SameRun /\ pc # "top" /\ tradesToday' # tradesToday)
          => (pc = "executed" /\ tradesToday' = tradesToday + 1)]_vars
  /\ [][(SameRun /\ (\/ pc \in {"limit", "catch"}
                      \/ /\ Len(calls') = Len(calls) + 1
                         /\ ~calls'[Len(calls')].ok))
          => tradesToday' = tradesToday]_vars

\* Witness of C11: after a counted swap, the confirmation of a submitted
\* transaction failed and the counter is still 1.
C11_Witness ==
  /\ pc = "catch"
  /\ tradesToday = 1
  /\ \E i \in DOMAIN calls : calls[i].op = "send" /\ calls[i].ok
  /\ calls[Len(calls)] = Call("confirm", FALSE, 0)

\* C12 as stated: an iteration that finds the cap reached makes no quote, no
\* build and no submission, and posts the 'Daily trade limit reached'
\* notification, in every such iteration.
C12_LimitOnlyNotifies ==
  LimitIteration =>
     /\ swaps = <<>>
     /\ \A i \in DOMAIN calls : calls[i].op \in {"postLimit", "sleep"}
     /\ pc \in {"sleep", "top"} => CountOf("postLimit") = 1

\* C12 as amended: such an iteration makes no request of swapOnce; its only
\* request besides the sleep is the one limit notification, posted when
\* DISCORD_WEBHOOK_URL is set and absent when it is unset.
C12_LimitOnlyNotifiesIfWebhook ==
  LimitIteration =>
     /\ swaps = <<>>
     /\ pc \in {"limit", "sleep", "top"}
     /\ \A i \in DOMAIN calls : calls[i].op \in {"postLimit", "sleep"}
     /\ pc \in {"sleep", "top"} =>
          CountOf("postLimit") = (IF env.DISCORD_WEBHOOK_URL = Unset THEN 0 ELSE 1)

\* Witness of C12: the cap was reached by trades, and an iteration that found
\* it reached has posted the limit notification and slept.
C12_Witness ==
  /\ LimitIteration
  /\ pc = "top"
  /\ tradesToday > 0
  /\ Has("postLimit")
  /\ Has("sleep")

\* C13: with a cap greater than 0, an iteration that starts on a later UTC
\* calendar day than the one on which the limit was reached attempts a swap.
C13_ResumesNextDay ==
  [][(/\ pc = "top"
      /\ pc' \in {"limit", "awaitSwap"}
      /\ CapHalves > 0
      /\ limitDay # NoDay
      /\ clock > limitDay)
       => (pc' = "awaitSwap" /\ swaps' = <<"swapOnce">>)]_vars

\* C14 as stated: 0 <= tradesToday <= cap in every reachable state, for every
\* cap that is a non-negative number.
C14_WithinCap == 0 <= tradesToday /\ 2 * tradesToday <= CapHalves

\* C14 as amended: 0 <= tradesToday <= cap in every reachable state, for
\* every cap that is a non-negative whole number.
C14_WithinWholeCap ==
  CapHalves % 2 = 0 => (0 <= tradesToday /\ 2 * tradesToday <= CapHalves)

\* Witness of C14: the counter stands at a cap of 2.
C14_Witness == CapHalves = 4 /\ tradesToday = 2

\* C15: the success notification is posted only after the confirmation of
\* this iteration resolved and tradesToday was incremented, once, and never
\* together with a 'Swap error' notification.
C15_SuccessPostAfterConfirm ==
  (Has("postOk") \/ pc = "notifyOk") =>
     /\ CountOf("postOk") <= 1
     /\ CountOf("confirm") = 1
     /\ ConfirmedNow
     /\ \A i, j \in DOMAIN calls :
          (calls[i].op = "confirm" /\ calls[j].op = "postOk") => i < j
     /\ ~Has("postError")
     /\ tradesToday >= 1
     /\ tradesToday = confirmed

\* Witness of C15: a success notification was posted.
C15_Witness == pc = "sleep" /\ Has("postOk")

\* The configured amount is NaN, zero or negative (the amounts the claim of
\* C16 is about), stated on the value of Number(AMOUNT_IN_BASE_UNITS).
BadAmount == ~IsFinite(Amount) \/ Amount <= 0

\* C16 as stated: with an amount that is no finite number greater than 0, no
\* quote is requested and no transaction submitted, tradesToday stays 0, and
\* every iteration reports a 'Swap error'.
C16_BadAmountReported ==
  BadAmount =>
     /\ ~Has("quote") /\ ~Has("send")
     /\ tradesToday = 0
     /\ pc = "sleep" => Has("postError")

\* C16 as amended: with such an amount swapOnce throws before any request:
\* no quote, no submission, tradesToday stays 0; every iteration that calls
\* swapOnce ends in the catch clause, whose 'Swap error' is posted when
\* DISCORD_WEBHOOK_URL is set and absent when it is unset; the loop keeps
\* sleeping and starting iterations.
C16_BadAmountThrowsFirst ==
  BadAmount =>
     /\ \A i \in DOMAIN calls : calls[i].op \notin ChainOps
     /\ \A i \in DOMAIN swaps : swaps[i] = "swapOnce"
     /\ lastQuote = <<>>
     /\ tradesToday = 0 /\ sentToday = 0 /\ confirmed = 0
     /\ Has("validate") => (Threw /\ pc \in {"catch", "sleep", "top"})
     /\ (pc = "sleep" /\ Has("validate")) =>
          CountOf("postError") = (IF env.DISCORD_WEBHOOK_URL = Unset THEN 0 ELSE 1)
     /\ (pc = "sleep" /\ ~Has("validate")) => LimitIteration
     /\ pc \in LoopPcs => ENABLED LoopNext

\* Witness of C16: with a bad amount an iteration has thrown, posted its
\* error and slept.
C16_Witness ==
  /\ BadAmount
  /\ pc = "top"
  /\ Has("postError")
  /\ Has("sleep")

\* C17: no swap attempt before the balance query succeeded and the 'Executor
\* online' notification was attempted; with a required variable missing the
\* process exits with status 1 without notification, balance query or swap.
C17_StartupOrder ==
  /\ (pc \in LoopPcs \/ swaps # <<>> \/ lastQuote # <<>>) => startup = "online"
  /\ pc = "online" => (startup = "balance" /\ calls = <<Call("getBalance", TRUE, 0)>>)
  /\ (pc = "top" /\ Has("getBalance")) =>
        /\ calls[1] = Call("getBalance", TRUE, 0)
        /\ CountOf("postOnline") = (IF env.DISCORD_WEBHOOK_URL = Unset THEN 0 ELSE 1)
  /\ pc = "exit1" <=> ~Complete(env)
  /\ ~Complete(env) => (calls = <<>> /\ swaps = <<>> /\ startup = "none"
                        /\ lastQuote = <<>> /\ sentToday = 0)

\* Witness of C17: the first swap attempt is under way after the startup.
C17_Witness == swaps = <<"quote">> /\ startup = "online" /\ tradesToday = 0

\* C18: every swap attempt quotes the same input mint, output mint and
\* amount: TOKEN to QUOTE when SIDE is 'sell', QUOTE to TOKEN otherwise, for
\* Number(AMOUNT_IN_BASE_UNITS); the environment never changes in a run.
C18_SingleSided ==
  /\ [](lastQuote # <<>> =>
          lastQuote = <<IF env.SIDE = "sell" THEN env.TOKEN_MINT ELSE env.QUOTE_MINT,
                        IF env.SIDE = "sell" THEN env.QUOTE_MINT ELSE env.TOKEN_MINT,
                        NumberOf(env.AMOUNT_IN_BASE_UNITS)>>)
  /\ [][env' = env]_vars

\* Witness of C18: a later iteration of a 'buy' executor has quoted.
C18_Witness ==
  /\ env.SIDE = "buy"
  /\ swaps = <<"build">>
  /\ tradesToday > 0
  /\ lastQuote = <<"QuoteMint", "TokenMint", 1000>>

====
